---- MODULE Spec2Model ----
(***************************************************************************)
(* Model of split-vectortiles-by-region.py: the bounding-box calculator,   *)
(* the tile address translator, one region task (both output variants,     *)
(* with the SQLite store builder step by step) and the worker-pool         *)
(* dispatch of the main script.                                            *)
(*                                                                         *)
(* Four specifications share the module:                                   *)
(*   BboxSpec  get_bbox on nested coordinate structures                    *)
(*   ConvSpec  convert_tile_list on lister output text                     *)
(*   TaskSpec  create_tileset_mbtiles / create_tileset_targz, one region   *)
(*   PoolSpec  task construction, multiprocessing.Pool, result collection  *)
(* Coordinates are integers in half degrees (181.0 is 362).                *)
(***************************************************************************)
EXTENDS Integers, Sequences, FiniteSets, TLC

VARIABLES
    gGeometry, gPc, gResult,                 \* BboxSpec
    cLines, cInput, cPc, cResult,            \* ConvSpec
    tFormat,        \* TaskSpec: "mbtiles" or "tar.gz"
    tFeature,       \* result of find_region for the task's region
    tSrcTiles,      \* rows of source.tiles: <<zoom, column, row, blob>>
    tSrcMeta,       \* source metadata: set of <<name, value>>
    tPc,            \* position in the task
    tGeojsonPath,   \* local geojson_path ("None" until assigned)
    tMetadataPath,  \* local metadata_path ("unbound" until assigned)
    tFiles,         \* temporary files that exist
    tMetaFile,      \* content of the rewritten metadata file
    tBbox,          \* local bbox
    tListerOut,     \* stdout of the lister
    tTileList,      \* local tile_list after convert_tile_list
    tOut,           \* the store (or archive) at the output path
    tCopyIdx,       \* position of the copy loop in tile_list
    tFailedAt,      \* step of create_mbtiles that raised
    tCm,            \* outcome of create_mbtiles: "", "ok", "error"
    tExc,           \* exception in flight in the task
    tEnd,           \* how the task ended: "", "returned", "SystemExit", exception
    pStrict,        \* PoolSpec: args.strict
    pProcesses,     \* args.processes
    pRequested,     \* config["polygons"]: region ids
    pIndex,         \* ids of the features of the GeoJSON index
    pFault,         \* what goes wrong in the task of each requested region
    pMainPc,        \* position of the main script
    pI,             \* requested regions handled by the loop of line 332
    pTasks,         \* the list tasks
    pState,         \* per dispatched task: queued, running, building, ...
    pArtifact,      \* per dispatched task: state of its output file
    pCollected,     \* results returned by p.get() so far
    pExit           \* exit status of the main process (-1 while running)

bboxVars == <<gGeometry, gPc, gResult>>
convVars == <<cLines, cInput, cPc, cResult>>
taskVars == <<tFormat, tFeature, tSrcTiles, tSrcMeta, tPc, tGeojsonPath,
              tMetadataPath, tFiles, tMetaFile, tBbox, tListerOut, tTileList,
              tOut, tCopyIdx, tFailedAt, tCm, tExc, tEnd>>
poolVars == <<pStrict, pProcesses, pRequested, pIndex, pFault, pMainPc, pI,
              pTasks, pState, pArtifact, pCollected, pExit>>
vars == <<bboxVars, convVars, taskVars, poolVars>>

----------------------------------------------------------------------------
(* Bounds *)
MaxLeaves == 2      \* coordinate pairs in a geometry
MaxDepth  == 3      \* nesting depth above the coordinate pairs
MaxLines  == 2      \* lines of lister output
MaxZoom   == 2      \* zoom levels of well-formed lines
MaxList   == 2      \* addresses the lister prints for one region task
MaxRegions == 3     \* configured regions
MaxProcesses == 2   \* size of the worker pool

Min(a, b) == IF a <= b THEN a ELSE b
Max(a, b) == IF a >= b THEN a ELSE b

RECURSIVE Pow2(_)
Pow2(n) == IF n = 0 THEN 1 ELSE 2 * Pow2(n - 1)

----------------------------------------------------------------------------
(* JSON values of a coordinate tree: numbers keep the Python type that     *)
(* json.load gives them (int for "10", float for "10.0" or "10.5").        *)
Num(tag, v) == [tag |-> tag, v |-> v, items |-> <<>>]
List(items) == [tag |-> "list", v |-> 0, items |-> items]

DEFAULT_MAP_ZOOM == 7

SeedBox == <<362, 182, -362, -182>>

merge_bounding_boxes(bbox1, bbox2) ==
    << Min(bbox1[1], bbox2[1]), Min(bbox1[2], bbox2[2]),
       Max(bbox1[3], bbox2[3]), Max(bbox1[4], bbox2[4]) >>

add_to_bbox(bbox, x, y) ==
    << Min(bbox[1], x), Min(bbox[2], y), Max(bbox[3], x), Max(bbox[4], y) >>

(* bbox_of_ring over the items of a list.  The result is a record: err is  *)
(* "" or the Python exception raised (elem[0] of an empty list, elem[1]    *)
(* of a one-element list, comparison of a number with a list).             *)
RECURSIVE bbox_of_ring_from(_, _, _)
bbox_of_ring_from(ring, k, bbox) ==
    IF k > Len(ring) THEN [err |-> "", box |-> bbox]
    ELSE LET elem == ring[k] IN
         IF elem.tag = "list" /\ Len(elem.items) = 0
           THEN [err |-> "IndexError", box |-> bbox]
         ELSE IF elem.tag = "list" /\ elem.items[1].tag = "float"
           THEN IF Len(elem.items) < 2
                  THEN [err |-> "IndexError", box |-> bbox]
                ELSE IF elem.items[2].tag = "list"
                  THEN [err |-> "TypeError", box |-> bbox]
                ELSE bbox_of_ring_from(ring, k + 1,
                        add_to_bbox(bbox, elem.items[1].v, elem.items[2].v))
         ELSE IF elem.tag = "list"
           THEN LET sub == bbox_of_ring_from(elem.items, 1, SeedBox) IN
                IF sub.err # "" THEN sub
                ELSE bbox_of_ring_from(ring, k + 1,
                        merge_bounding_boxes(bbox, sub.box))
         ELSE bbox_of_ring_from(ring, k + 1, bbox)

bbox_of_ring(ring) == bbox_of_ring_from(ring, 1, SeedBox)

get_bbox(geometry) == bbox_of_ring(geometry.coordinates.items)

get_center(bbox) ==
    << (bbox[3] - bbox[1]) + 2 * bbox[1], (bbox[4] - bbox[2]) + 2 * bbox[2],
       DEFAULT_MAP_ZOOM >>

----------------------------------------------------------------------------
(* Inputs of BboxSpec: every coordinate structure of depth <= MaxDepth     *)
(* with at most MaxLeaves leaves.                                          *)
CoordNums == { Num("int", 2), Num("float", 1), Num("float", -3) }
CoordPairs == { List(<<a, b>>) : a \in CoordNums, b \in CoordNums }

RECURSIVE LeafCount(_)
LeafCount(node) ==
    IF node \in CoordPairs THEN 1
    ELSE LET RECURSIVE Sum(_)
             Sum(k) == IF k = 0 THEN 0
                       ELSE LeafCount(node.items[k]) + Sum(k - 1)
         IN  Sum(Len(node.items))

RECURSIVE Trees(_, _), Forests(_, _)
\* nodes of depth <= d (0 = a coordinate pair) holding 1..n leaves
Trees(d, n) ==
    IF n = 0 THEN {}
    ELSE CoordPairs \cup
         (IF d = 0 THEN {}
          ELSE { List(f) : f \in (Forests(d - 1, n) \ {<<>>}) })
\* sequences of nodes of depth <= d holding at most n leaves in total
Forests(d, n) ==
    {<<>>} \cup
    UNION { { <<t>> \o rest : rest \in Forests(d, n - LeafCount(t)) } :
            t \in Trees(d, n) }

Geometries(d, n) == { [type |-> "Geometry", coordinates |-> t] :
                      t \in Trees(d, n) }

RECURSIVE Leaves(_)
\* the coordinate pairs of a node, as <<lon, lat>> values
Leaves(node) ==
    IF node.tag # "list" THEN {}
    ELSE IF Len(node.items) = 2 /\ node.items[1].tag # "list"
                                /\ node.items[2].tag # "list"
      THEN { <<node.items[1].v, node.items[2].v>> }
    ELSE UNION { Leaves(node.items[i]) : i \in 1..Len(node.items) }

----------------------------------------------------------------------------
(* BboxSpec *)
BboxInit ==
    /\ gGeometry \in Geometries(MaxDepth, MaxLeaves)
    /\ gPc = "start"
    /\ gResult = [err |-> "", box |-> SeedBox]

GetBbox ==
    /\ gPc = "start"
    /\ gResult' = get_bbox(gGeometry)
    /\ gPc' = "done"
    /\ UNCHANGED gGeometry
    /\ UNCHANGED <<convVars, taskVars, poolVars>>

----------------------------------------------------------------------------
(* Text is a sequence of one-character strings over the digits, "/", the   *)
(* newline and the letter "x".                                             *)
Digits == <<"0", "1", "2", "3", "4", "5", "6", "7", "8", "9">>
NL == "\n"

IsDigit(c) == \E i \in 1..10 : Digits[i] = c
DigitVal(c) == (CHOOSE i \in 1..10 : Digits[i] = c) - 1

\* str.split(sep)
RECURSIVE str_split_from(_, _, _, _)
str_split_from(s, sep, k, cur) ==
    IF k > Len(s) THEN <<cur>>
    ELSE IF s[k] = sep
      THEN <<cur>> \o str_split_from(s, sep, k + 1, <<>>)
    ELSE str_split_from(s, sep, k + 1, Append(cur, s[k]))

str_split(s, sep) == str_split_from(s, sep, 1, <<>>)

\* int(p) on this alphabet: defined for a non-empty run of digits,
\* ValueError otherwise
int_ok(p) == Len(p) > 0 /\ \A i \in 1..Len(p) : IsDigit(p[i])

RECURSIVE int_val(_)
int_val(p) ==
    IF Len(p) = 0 THEN 0
    ELSE 10 * int_val(SubSeq(p, 1, Len(p) - 1)) + DigitVal(p[Len(p)])

\* the flip without the "- 1"
y_corrected_off_by_one(zoom, row) == Pow2(zoom) - row

\* the row flip of line 135
y_corrected(zoom, row) == (Pow2(zoom) - 1) - row

(* One iteration of the loop of convert_tile_list on the line t: "skip",   *)
(* an exception name, or the tuple to append.                              *)
convert_line(t) ==
    IF t = <<>> THEN [kind |-> "skip"]
    ELSE LET fields == str_split(t, "/") IN
         IF \E i \in 1..Len(fields) : ~int_ok(fields[i])
           THEN [kind |-> "ValueError"]
         ELSE IF Len(fields) < 3
           THEN [kind |-> "IndexError"]
         ELSE LET zoom == int_val(fields[1]) IN
              [kind |-> "tuple",
               tuple |-> <<zoom, int_val(fields[2]),
                           y_corrected(zoom, int_val(fields[3]))>>]

RECURSIVE convert_lines_from(_, _, _)
convert_lines_from(ls, k, result) ==
    IF k > Len(ls) THEN [err |-> "", result |-> result]
    ELSE LET r == convert_line(ls[k]) IN
         IF r.kind = "skip" THEN convert_lines_from(ls, k + 1, result)
         ELSE IF r.kind = "tuple"
           THEN convert_lines_from(ls, k + 1, Append(result, r.tuple))
         ELSE [err |-> r.kind, result |-> <<>>]

convert_tile_list(tile_list) ==
    convert_lines_from(str_split(tile_list, NL), 1, <<>>)

----------------------------------------------------------------------------
(* Inputs of ConvSpec.  A line is described by its fields; the text the    *)
(* lister prints is built from the description by FormatInt and the        *)
(* separators.                                                             *)
RECURSIVE FormatInt(_)
FormatInt(n) ==
    IF n < 10 THEN <<Digits[n + 1]>>
    ELSE FormatInt(n \div 10) \o <<Digits[(n % 10) + 1]>>

RECURSIVE Join(_, _)
Join(parts, sep) ==
    IF Len(parts) = 0 THEN <<>>
    ELSE IF Len(parts) = 1 THEN parts[1]
    ELSE parts[1] \o <<sep>> \o Join(Tail(parts), sep)

\* well-formed lines: z/x/y with 0 <= y < 2^z, columns 0 and 10
TileLines ==
    { [kind |-> "tile", z |-> z, x |-> x, y |-> y, f |-> <<>>] :
        z \in 0..MaxZoom, x \in {0, 10}, y \in 0..(Pow2(MaxZoom) - 1) }
TileLinesOk == { l \in TileLines : l.y < Pow2(l.z) }

\* free-form lines, given by their fields: one to five fields, integer,
\* empty or not a number
RawFields ==
    { << <<"1">> >>, << <<"x">> >>,
      << <<"1">>, <<"1">> >>, << <<"1">>, <<>> >>,
      << <<"1">>, <<"1">>, <<"1">> >>, << <<"1">>, <<"x">>, <<"1">> >>,
      << <<"1">>, <<"1">>, <<>> >>,
      << <<"1">>, <<"1">>, <<"1">>, <<"1">> >>,
      << <<"1">>, <<"1">>, <<"1">>, <<"x">> >>,
      << <<"2">>, <<"0">>, <<"3">>, <<"0">>, <<"0">> >> }
RawLines == { [kind |-> "raw", z |-> 0, x |-> 0, y |-> 0, f |-> fs] :
              fs \in RawFields }

BlankLine == [kind |-> "blank", z |-> 0, x |-> 0, y |-> 0, f |-> <<>>]

LineDescs == TileLinesOk \cup RawLines \cup {BlankLine}

LineText(l) ==
    IF l.kind = "blank" THEN <<>>
    ELSE IF l.kind = "tile"
      THEN Join(<<FormatInt(l.z), FormatInt(l.x), FormatInt(l.y)>>, "/")
    ELSE Join(l.f, "/")

RECURSIVE LineSeqs(_)
LineSeqs(n) ==
    IF n = 0 THEN {<<>>}
    ELSE LET shorter == LineSeqs(n - 1) IN
         shorter \cup { Append(ls, l) : ls \in { g \in shorter : Len(g) = n - 1 },
                                        l \in LineDescs }

\* the lister ends its output with or without a final newline
InputText(ls, finalNL) ==
    Join([i \in 1..Len(ls) |-> LineText(ls[i])], NL)
        \o (IF finalNL THEN <<NL>> ELSE <<>>)

ConvInit ==
    /\ cLines \in LineSeqs(MaxLines)
    /\ \E finalNL \in BOOLEAN : cInput = InputText(cLines, finalNL)
    /\ cPc = "start"
    /\ cResult = [err |-> "", result |-> <<>>]

ConvertTileList ==
    /\ cPc = "start"
    /\ cResult' = convert_tile_list(cInput)
    /\ cPc' = "done"
    /\ UNCHANGED <<cLines, cInput>>
    /\ UNCHANGED <<bboxVars, taskVars, poolVars>>

----------------------------------------------------------------------------
(* One region task.  Metadata values are records: a string, or the list    *)
(* of numbers of bounds/center with the way it is written ("str" for the   *)
(* comma-joined string of create_mbtiles, "list" for the JSON list).       *)
Str(x) == [s |-> x, n |-> <<>>]
Nums(how, ns) == [s |-> how, n |-> ns]

NAME == "Shortbread"
ATTRIBUTION == "OpenStreetMap contributors (ODbL)"

\* metadata[key] = value on a dict kept as a set of <<key, value>>
dict_set(metadata, key, value) ==
    { kv \in metadata : kv[1] # key } \cup { <<key, value>> }

\* the rewrite without the two assignments of lines 82-83
rewrite_metadata_keeps_name(metadata, bbox) ==
    dict_set(dict_set(metadata,
        "bounds", Nums("list", bbox)),
        "center", Nums("list", get_center(bbox)))

\* lines 82-86 of write_metadata_json
rewrite_metadata(metadata, bbox) ==
    dict_set(dict_set(dict_set(dict_set(metadata,
        "name", Str(NAME)),
        "attribution", Str(ATTRIBUTION)),
        "bounds", Nums("list", bbox)),
        "center", Nums("list", get_center(bbox)))

\* SELECT name, value FROM source.metadata WHERE name NOT IN ('bounds', 'center')
select_metadata(metadata) ==
    { kv \in metadata : kv[1] \notin {"bounds", "center"} }

\* the SELECT without the test on tile_row
select_tile_any_row(tiles, tile) ==
    { r \in tiles : r[1] = tile[1] /\ r[2] = tile[2] }

\* SELECT ... FROM source.tiles WHERE zoom_level = %s AND tile_column = %s
\* AND tile_row = %s
select_tile(tiles, tile) ==
    { r \in tiles : r[1] = tile[1] /\ r[2] = tile[2] /\ r[3] = tile[3] }

RECURSIVE SetToSeq(_)
SetToSeq(S) ==
    IF S = {} THEN <<>>
    ELSE LET r == CHOOSE r \in S : TRUE IN <<r>> \o SetToSeq(S \ {r})

\* delete_if_exists: the files left after the call
delete_if_exists(files, path) ==
    IF path \in {"None", ""} THEN files ELSE files \ {path}

\* a store file: committed rows and the rows of the open transaction
NoStore == [exists |-> FALSE, txn |-> FALSE, tiles |-> <<>>, pend |-> <<>>,
            meta |-> {}, metaPend |-> {}]
EmptyStore == [NoStore EXCEPT !.exists = TRUE]
StaleStore == [EmptyStore EXCEPT !.tiles = << <<0, 0, 0, "stale">> >>,
                                 !.meta = { <<"name", Str("stale")>> }]

\* conn.commit()
commit(db) == [db EXCEPT !.tiles = db.tiles \o db.pend, !.pend = <<>>,
                         !.meta = db.meta \cup db.metaPend, !.metaPend = {},
                         !.txn = FALSE]
\* line 165 left out: the copied rows stay in the open transaction
commit_tiles_missing(db) == db

\* the commit of line 165, after the copy loop
commit_tiles(db) == commit(db)

\* conn.close() with a transaction open: the rollback is undefined under
\* journal_mode = OFF, any prefix of the uncommitted rows may stay
close_outcomes(db) ==
    { [db EXCEPT !.tiles = db.tiles \o SubSeq(db.pend, 1, k), !.pend = <<>>,
                 !.meta = db.meta \cup m, !.metaPend = {}, !.txn = FALSE] :
        k \in 0..Len(db.pend), m \in SUBSET db.metaPend }

HasDuplicateKey(rows) ==
    \E i, j \in 1..Len(rows) :
        i < j /\ rows[i][1] = rows[j][1] /\ rows[i][2] = rows[j][2]
              /\ rows[i][3] = rows[j][3]

(* Inputs of TaskSpec *)
FloatRing == List(<< List(<< List(<<Num("float", 1), Num("float", -3)>>),
                            List(<<Num("float", 5), Num("int", 2)>>) >>) >>)
NoFeature == [found |-> FALSE,
              geometry |-> [type |-> "Geometry", coordinates |-> List(<<>>)]]
Features == { [found |-> TRUE,
               geometry |-> [type |-> "Geometry", coordinates |-> c]] :
              c \in {FloatRing} }

SrcKeys == { <<0, 0, 0>>, <<1, 0, 0>>, <<1, 1, 0>> }
\* per address: no row or one row; two rows for <<1, 0, 0>> in a source
\* without unique index
SrcTileSets ==
    { UNION { { <<k[1], k[2], k[3], b>> : b \in f[k] } : k \in SrcKeys } :
      f \in { g \in [SrcKeys -> { {}, {"b1"}, {"b1", "b2"} }] :
                \A k \in SrcKeys : g[k] = {"b1", "b2"} => k = <<1, 0, 0>> } }

SrcMetas ==
    { { <<"name", Str(nm)>>, <<"format", Str("pbf")>>,
        <<"bounds", Str("old")>>, <<"center", Str("old")>> } \cup at :
      nm \in {NAME, "Planet"},
      at \in { {}, { <<"attribution", Str("custom")>> } } }

\* what the lister may print: addresses in its own row convention, and
\* two broken lines
TaskLineDescs ==
    { [kind |-> "tile", z |-> a[1], x |-> a[2], y |-> a[3], f |-> <<>>] :
        a \in { <<0, 0, 0>>, <<1, 0, 0>>, <<1, 0, 1>>, <<1, 1, 1>> } } \cup
    { [kind |-> "raw", z |-> 0, x |-> 0, y |-> 0, f |-> << <<"1">>, <<"x">> >>] }

RECURSIVE TaskLineSeqs(_)
TaskLineSeqs(n) ==
    IF n = 0 THEN {<<>>}
    ELSE LET shorter == TaskLineSeqs(n - 1) IN
         shorter \cup { Append(ls, l) : ls \in { g \in shorter : Len(g) = n - 1 },
                                        l \in TaskLineDescs }

ListerTexts == { InputText(ls, TRUE) : ls \in TaskLineSeqs(MaxList) }

TaskInit ==
    /\ tFormat \in {"mbtiles", "tar.gz"}
    /\ tFeature \in Features \cup {NoFeature}
    /\ tSrcTiles \in (IF tFormat = "mbtiles" THEN SrcTileSets ELSE {{}})
    /\ tSrcMeta \in SrcMetas
    /\ tOut \in (IF tFormat = "mbtiles" THEN {NoStore, StaleStore} ELSE {NoStore})
    /\ tPc = "write_geojson"
    /\ tGeojsonPath = "None"
    /\ tMetadataPath = "unbound"
    /\ tFiles = {}
    /\ tMetaFile = {}
    /\ tBbox = SeedBox
    /\ tListerOut = <<>>
    /\ tTileList = <<>>
    /\ tCopyIdx = 0
    /\ tFailedAt = ""
    /\ tCm = ""
    /\ tExc = ""
    /\ tEnd = ""

\* an exception raised in the try block of the task: control goes to the
\* except/finally clauses
Raise(exc) == tExc' = exc /\ tPc' = "finally"

NotTask == UNCHANGED <<bboxVars, convVars, poolVars>>

TEMP_GEOJSON == "geojson.tmp"
TEMP_METADATA == "metadata.tmp"

\* write_geojson_feature: the temporary file is created, then written
WriteGeojsonFeature ==
    /\ tPc = "write_geojson"
    /\ \E outcome \in {"ok", "create_fails", "dump_fails"} :
         CASE outcome = "ok" ->
                /\ tFiles' = tFiles \cup {TEMP_GEOJSON}
                /\ tGeojsonPath' = TEMP_GEOJSON
                /\ tPc' = IF tFormat = "mbtiles" THEN "get_bbox"
                                                 ELSE "write_metadata"
                /\ UNCHANGED tExc
           [] outcome = "create_fails" ->
                /\ Raise("OSError")
                /\ UNCHANGED <<tFiles, tGeojsonPath>>
           [] outcome = "dump_fails" ->
                /\ tFiles' = tFiles \cup {TEMP_GEOJSON}
                /\ Raise("OSError")
                /\ UNCHANGED tGeojsonPath
    /\ UNCHANGED <<tFormat, tFeature, tSrcTiles, tSrcMeta, tMetadataPath,
                   tMetaFile, tBbox, tListerOut, tTileList, tOut, tCopyIdx,
                   tFailedAt, tCm, tEnd>>
    /\ NotTask

\* lines 192-194: bbox of the feature, output directory
TaskGetBbox ==
    /\ tPc = "get_bbox"
    /\ IF ~tFeature.found
         THEN Raise("TypeError") /\ UNCHANGED tBbox
         ELSE LET r == get_bbox(tFeature.geometry) IN
              IF r.err # ""
                THEN Raise(r.err) /\ UNCHANGED tBbox
                ELSE \E makedirsFails \in BOOLEAN :
                       /\ tBbox' = r.box
                       /\ IF makedirsFails
                            THEN Raise("OSError")
                            ELSE tPc' = "run_lister" /\ UNCHANGED tExc
    /\ UNCHANGED <<tFormat, tFeature, tSrcTiles, tSrcMeta, tGeojsonPath,
                   tMetadataPath, tFiles, tMetaFile, tListerOut, tTileList,
                   tOut, tCopyIdx, tFailedAt, tCm, tEnd>>
    /\ NotTask

\* line 200: run_cmd(..., check_output=True)
RunLister ==
    /\ tPc = "run_lister"
    /\ \/ Raise("CalledProcessError") /\ UNCHANGED tListerOut
       \/ /\ tListerOut' \in ListerTexts
          /\ tPc' = "convert"
          /\ UNCHANGED tExc
    /\ UNCHANGED <<tFormat, tFeature, tSrcTiles, tSrcMeta, tGeojsonPath,
                   tMetadataPath, tFiles, tMetaFile, tBbox, tTileList, tOut,
                   tCopyIdx, tFailedAt, tCm, tEnd>>
    /\ NotTask

\* line 201
TaskConvert ==
    /\ tPc = "convert"
    /\ LET r == convert_tile_list(tListerOut) IN
       IF r.err # ""
         THEN Raise(r.err) /\ UNCHANGED tTileList
         ELSE tTileList' = r.result /\ tPc' = "cm_remove" /\ UNCHANGED tExc
    /\ tListerOut' = <<>>
    /\ UNCHANGED <<tFormat, tFeature, tSrcTiles, tSrcMeta, tGeojsonPath,
                   tMetadataPath, tFiles, tMetaFile, tBbox, tOut, tCopyIdx,
                   tFailedAt, tCm, tEnd>>
    /\ NotTask

\* a statement of create_mbtiles raised: the except clause, then finally
CmFail(step) == tFailedAt' = step /\ tPc' = "cm_close"

CmUnchanged == UNCHANGED <<tFormat, tFeature, tSrcTiles, tSrcMeta,
                           tGeojsonPath, tMetadataPath, tFiles, tMetaFile,
                           tBbox, tListerOut, tTileList, tExc, tEnd>>
               /\ UNCHANGED <<bboxVars, convVars, poolVars>>

\* lines 143-147
CmRemove ==
    /\ tPc = "cm_remove"
    /\ tOut' = IF tOut.exists THEN NoStore ELSE tOut
    /\ tPc' = "cm_connect"
    /\ UNCHANGED <<tCopyIdx, tFailedAt, tCm>>
    /\ CmUnchanged

\* lines 152-160
CmConnect ==
    /\ tPc = "cm_connect"
    /\ \E fails \in BOOLEAN :
         IF fails THEN CmFail("connect") /\ UNCHANGED tOut
         ELSE /\ tOut' = IF tOut.exists THEN tOut ELSE EmptyStore
              /\ tPc' = "cm_attach"
              /\ UNCHANGED tFailedAt
    /\ UNCHANGED <<tCopyIdx, tCm>>
    /\ CmUnchanged

\* lines 161-162; CREATE TABLE fails when the file already holds the table
CmAttach ==
    /\ tPc = "cm_attach"
    /\ \E fails \in BOOLEAN :
         IF fails \/ tOut # EmptyStore
           THEN CmFail("attach") /\ UNCHANGED tCopyIdx
           ELSE tPc' = "cm_copy" /\ tCopyIdx' = 1 /\ UNCHANGED tFailedAt
    /\ UNCHANGED <<tOut, tCm>>
    /\ CmUnchanged

\* lines 163-164, one iteration
CmCopy ==
    /\ tPc = "cm_copy"
    /\ tCopyIdx <= Len(tTileList)
    /\ \E fails \in BOOLEAN :
         IF fails THEN CmFail("copy") /\ UNCHANGED <<tOut, tCopyIdx>>
         ELSE /\ tOut' = [tOut EXCEPT
                    !.pend = @ \o SetToSeq(select_tile(tSrcTiles,
                                                       tTileList[tCopyIdx])),
                    !.txn = TRUE]
              /\ tCopyIdx' = tCopyIdx + 1
              /\ UNCHANGED <<tPc, tFailedAt>>
    /\ UNCHANGED tCm
    /\ CmUnchanged

\* line 165
CmCommitTiles ==
    /\ tPc = "cm_copy"
    /\ tCopyIdx > Len(tTileList)
    /\ tOut' = commit_tiles(tOut)
    /\ tPc' = "cm_index"
    /\ UNCHANGED <<tCopyIdx, tFailedAt, tCm>>
    /\ CmUnchanged

\* lines 166-167
CmIndex ==
    /\ tPc = "cm_index"
    /\ \E fails \in BOOLEAN :
         IF fails \/ HasDuplicateKey(tOut.tiles \o tOut.pend)
           THEN CmFail("index") /\ UNCHANGED tOut
           ELSE tOut' = commit(tOut) /\ tPc' = "cm_meta" /\ UNCHANGED tFailedAt
    /\ UNCHANGED <<tCopyIdx, tCm>>
    /\ CmUnchanged

\* line 168: the statement commits by itself unless a transaction is open
CmMeta ==
    /\ tPc = "cm_meta"
    /\ \E fails \in BOOLEAN :
         IF fails THEN CmFail("metadata") /\ UNCHANGED tOut
         ELSE /\ tOut' = IF tOut.txn
                           THEN [tOut EXCEPT !.metaPend =
                                    @ \cup select_metadata(tSrcMeta)]
                           ELSE [tOut EXCEPT !.meta =
                                    @ \cup select_metadata(tSrcMeta)]
              /\ tPc' = "cm_bounds"
              /\ UNCHANGED tFailedAt
    /\ UNCHANGED <<tCopyIdx, tCm>>
    /\ CmUnchanged

\* line 169
CmBounds ==
    /\ tPc = "cm_bounds"
    /\ \E fails \in BOOLEAN :
         IF fails THEN CmFail("bounds") /\ UNCHANGED tOut
         ELSE /\ tOut' = [tOut EXCEPT
                    !.metaPend = @ \cup { <<"bounds", Nums("str", tBbox)>> },
                    !.txn = TRUE]
              /\ tPc' = "cm_center"
              /\ UNCHANGED tFailedAt
    /\ UNCHANGED <<tCopyIdx, tCm>>
    /\ CmUnchanged

\* lines 170-171
CmCenter ==
    /\ tPc = "cm_center"
    /\ \E fails \in BOOLEAN :
         IF fails THEN CmFail("center") /\ UNCHANGED tOut
         ELSE /\ tOut' = commit([tOut EXCEPT
                    !.metaPend = @ \cup
                        { <<"center", Nums("str", get_center(tBbox))>> },
                    !.txn = TRUE])
              /\ tPc' = "cm_detach"
              /\ UNCHANGED tFailedAt
    /\ UNCHANGED <<tCopyIdx, tCm>>
    /\ CmUnchanged

\* lines 172-173
CmDetach ==
    /\ tPc = "cm_detach"
    /\ \E fails \in BOOLEAN :
         IF fails THEN CmFail("detach") /\ UNCHANGED tOut
         ELSE tOut' = commit(tOut) /\ tPc' = "cm_close" /\ UNCHANGED tFailedAt
    /\ UNCHANGED <<tCopyIdx, tCm>>
    /\ CmUnchanged

\* lines 174-183: except, finally, sys.exit(1)
CmClose ==
    /\ tPc = "cm_close"
    /\ tOut' \in close_outcomes(tOut)
    /\ IF tFailedAt # ""
         THEN tCm' = "error" /\ Raise("SystemExit")
         ELSE tCm' = "ok" /\ tPc' = "finally" /\ UNCHANGED tExc
    /\ UNCHANGED <<tFormat, tFeature, tSrcTiles, tSrcMeta, tGeojsonPath,
                   tMetadataPath, tFiles, tMetaFile, tBbox, tListerOut,
                   tTileList, tCopyIdx, tFailedAt, tEnd>>
    /\ NotTask

\* write_metadata_json, called at line 220
WriteMetadataJson ==
    /\ tPc = "write_metadata"
    /\ IF ~tFeature.found
         THEN Raise("TypeError") /\ UNCHANGED <<tFiles, tMetadataPath, tMetaFile>>
         ELSE \E outcome \in {"ok", "open_fails", "dump_fails"} :
              LET r == get_bbox(tFeature.geometry) IN
              CASE outcome = "open_fails" ->
                     /\ Raise("OSError")
                     /\ UNCHANGED <<tFiles, tMetadataPath, tMetaFile>>
                [] outcome # "open_fails" /\ r.err # "" ->
                     /\ Raise(r.err)
                     /\ UNCHANGED <<tFiles, tMetadataPath, tMetaFile>>
                [] outcome = "dump_fails" /\ r.err = "" ->
                     /\ tFiles' = tFiles \cup {TEMP_METADATA}
                     /\ Raise("OSError")
                     /\ UNCHANGED <<tMetadataPath, tMetaFile>>
                [] outcome = "ok" /\ r.err = "" ->
                     /\ tFiles' = tFiles \cup {TEMP_METADATA}
                     /\ tMetaFile' = rewrite_metadata(tSrcMeta, r.box)
                     /\ tMetadataPath' = TEMP_METADATA
                     /\ tPc' = "pipeline"
                     /\ UNCHANGED tExc
    /\ UNCHANGED <<tFormat, tFeature, tSrcTiles, tSrcMeta, tGeojsonPath,
                   tBbox, tListerOut, tTileList, tOut, tCopyIdx, tFailedAt,
                   tCm, tEnd>>
    /\ NotTask

\* lines 221-236: the archive holds the rewritten file as metadata.json
RunPipeline ==
    /\ tPc = "pipeline"
    /\ \E outcome \in {"ok", "makedirs_fails", "nonzero"} :
         CASE outcome = "ok" ->
                /\ tOut' = [EmptyStore EXCEPT !.meta = tMetaFile]
                /\ tPc' = "finally"
                /\ UNCHANGED tExc
           [] outcome = "makedirs_fails" ->
                Raise("OSError") /\ UNCHANGED tOut
           [] outcome = "nonzero" ->
                tOut' = EmptyStore /\ Raise("CalledProcessError")
    /\ UNCHANGED <<tFormat, tFeature, tSrcTiles, tSrcMeta, tGeojsonPath,
                   tMetadataPath, tFiles, tMetaFile, tBbox, tListerOut,
                   tTileList, tCopyIdx, tFailedAt, tCm, tEnd>>
    /\ NotTask

\* lines 204-211 and 237-245: except CalledProcessError, finally, exit(1)
TaskFinally ==
    /\ tPc = "finally"
    /\ LET afterGeojson == delete_if_exists(tFiles, tGeojsonPath)
           ending == IF tExc = "CalledProcessError" THEN "SystemExit"
                     ELSE IF tExc = "" THEN "returned" ELSE tExc
       IN  IF tFormat = "tar.gz" /\ tMetadataPath = "unbound"
             THEN tFiles' = afterGeojson /\ tEnd' = "UnboundLocalError"
           ELSE IF tFormat = "tar.gz"
             THEN /\ tFiles' = delete_if_exists(afterGeojson, tMetadataPath)
                  /\ tEnd' = ending
           ELSE tFiles' = afterGeojson /\ tEnd' = ending
    /\ tPc' = "end"
    /\ UNCHANGED <<tFormat, tFeature, tSrcTiles, tSrcMeta, tGeojsonPath,
                   tMetadataPath, tMetaFile, tBbox, tListerOut, tTileList,
                   tOut, tCopyIdx, tFailedAt, tCm, tExc>>
    /\ NotTask

TaskNext ==
    \/ WriteGeojsonFeature \/ TaskGetBbox \/ RunLister \/ TaskConvert
    \/ CmRemove \/ CmConnect \/ CmAttach \/ CmCopy \/ CmCommitTiles
    \/ CmIndex \/ CmMeta \/ CmBounds \/ CmCenter \/ CmDetach \/ CmClose
    \/ WriteMetadataJson \/ RunPipeline \/ TaskFinally

TaskIdle ==
    /\ tFormat = "idle" /\ tFeature = NoFeature /\ tSrcTiles = {}
    /\ tSrcMeta = {} /\ tPc = "idle" /\ tGeojsonPath = "None"
    /\ tMetadataPath = "unbound" /\ tFiles = {} /\ tMetaFile = {}
    /\ tBbox = SeedBox /\ tListerOut = <<>> /\ tTileList = <<>>
    /\ tOut = NoStore /\ tCopyIdx = 0 /\ tFailedAt = "" /\ tCm = ""
    /\ tExc = "" /\ tEnd = ""

----------------------------------------------------------------------------
(* The main script from line 330 and the worker pool.  A task is followed   *)
(* through two stages (the lister, then the store build); what fails in    *)
(* it is fixed per region by pFault.                                       *)
Faults == {"none", "lister_nonzero", "db_error", "malformed_line"}

\* find_region: the feature of the index with that id, or None
find_region(index, region_id) ==
    IF region_id \in index THEN [found |-> TRUE, id |-> region_id]
                           ELSE [found |-> FALSE, id |-> 0]

PoolInit ==
    /\ pStrict \in BOOLEAN
    /\ pProcesses \in 1..MaxProcesses
    /\ \E n \in 1..MaxRegions : pRequested = [k \in 1..n |-> k]
    /\ pIndex \in (SUBSET (0..MaxRegions)) \ {{}}
    /\ pFault \in [1..Len(pRequested) -> Faults]
    /\ pMainPc = "build"
    /\ pI = 0
    /\ pTasks = <<>>
    /\ pState = <<>>
    /\ pArtifact = <<>>
    /\ pCollected = 0
    /\ pExit = -1

NotPool == UNCHANGED <<bboxVars, convVars, taskVars>>
PoolInputs == UNCHANGED <<pStrict, pProcesses, pRequested, pIndex, pFault>>

\* lines 332-344, one iteration of the loop
BuildTask ==
    /\ pMainPc = "build"
    /\ pI < Len(pRequested)
    /\ LET polygon_id == pRequested[pI + 1]
           geojson_feature == find_region(pIndex, polygon_id)
       IN  IF ~geojson_feature.found /\ pStrict
             THEN /\ pMainPc' = "exited"
                  /\ pExit' = 1
                  /\ UNCHANGED <<pI, pTasks>>
             ELSE /\ pTasks' = Append(pTasks, [region |-> polygon_id,
                                               feature |-> geojson_feature])
                  /\ pI' = pI + 1
                  /\ UNCHANGED <<pMainPc, pExit>>
    /\ UNCHANGED <<pState, pArtifact, pCollected>>
    /\ PoolInputs /\ NotPool

\* lines 346-351: the pool is created and every task is submitted
Dispatch ==
    /\ pMainPc = "build"
    /\ pI = Len(pRequested)
    /\ pState' = [k \in 1..Len(pTasks) |-> "queued"]
    /\ pArtifact' = [k \in 1..Len(pTasks) |-> "none"]
    /\ pMainPc' = "collect"
    /\ UNCHANGED <<pI, pTasks, pCollected, pExit>>
    /\ PoolInputs /\ NotPool

Busy == { k \in 1..Len(pState) : pState[k] \in {"running", "building"} }

\* a free worker of the pool takes the next task of the queue
WorkerStart(k) ==
    /\ pMainPc = "collect"
    /\ pState[k] = "queued"
    /\ \A j \in 1..(k - 1) : pState[j] # "queued"
    /\ Cardinality(Busy) < pProcesses
    /\ pState' = [pState EXCEPT ![k] = "running"]
    /\ UNCHANGED <<pMainPc, pI, pTasks, pArtifact, pCollected, pExit>>
    /\ PoolInputs /\ NotPool

(* How a call of create_tileset_* leaves the worker:                       *)
(*   an exception other than SystemExit is caught by the pool's worker     *)
(*   loop and sent back as the result ("raised");                          *)
(*   exit(1) raises SystemExit, which ends the worker process before any   *)
(*   result is sent ("died"; the pool starts a replacement worker).        *)
\* lines 190-201: geometry file, bbox, lister, convert_tile_list
TaskListTiles(k) ==
    /\ pMainPc = "collect"
    /\ pState[k] = "running"
    /\ LET fault == pFault[pTasks[k].region] IN
       IF ~pTasks[k].feature.found
         THEN pState' = [pState EXCEPT ![k] = "raised"]
       ELSE IF fault = "lister_nonzero"
         THEN pState' = [pState EXCEPT ![k] = "died"]
       ELSE IF fault = "malformed_line"
         THEN pState' = [pState EXCEPT ![k] = "raised"]
       ELSE pState' = [pState EXCEPT ![k] = "building"]
    /\ UNCHANGED <<pMainPc, pI, pTasks, pArtifact, pCollected, pExit>>
    /\ PoolInputs /\ NotPool

\* line 203: create_mbtiles, then the return of line 211
TaskBuild(k) ==
    /\ pMainPc = "collect"
    /\ pState[k] = "building"
    /\ IF pFault[pTasks[k].region] = "db_error"
         THEN /\ pState' = [pState EXCEPT ![k] = "died"]
              /\ pArtifact' = [pArtifact EXCEPT ![k] = "partial"]
         ELSE /\ pState' = [pState EXCEPT ![k] = "returned"]
              /\ pArtifact' = [pArtifact EXCEPT ![k] = "complete"]
    /\ UNCHANGED <<pMainPc, pI, pTasks, pCollected, pExit>>
    /\ PoolInputs /\ NotPool

\* the pool is torn down when the main process exits: its workers are
\* terminated, queued tasks never start
terminate_pool(state) ==
    [k \in 1..Len(state) |->
        IF state[k] \in {"queued", "running", "building"} THEN "terminated"
        ELSE state[k]]

\* line 352, one p.get(): returns the value, or raises what the task raised
\* and the script ends with a traceback
Collect ==
    /\ pMainPc = "collect"
    /\ pCollected < Len(pTasks)
    /\ LET k == pCollected + 1 IN
       \/ /\ pState[k] = "returned"
          /\ pCollected' = k
          /\ UNCHANGED <<pMainPc, pState, pExit>>
       \/ /\ pState[k] = "raised"
          /\ pMainPc' = "exited"
          /\ pExit' = 1
          /\ pState' = terminate_pool(pState)
          /\ UNCHANGED pCollected
    /\ UNCHANGED <<pI, pTasks, pArtifact>>
    /\ PoolInputs /\ NotPool

\* end of the script after line 352
MainEnd ==
    /\ pMainPc = "collect"
    /\ pCollected = Len(pTasks)
    /\ pMainPc' = "exited"
    /\ pExit' = 0
    /\ pState' = terminate_pool(pState)
    /\ UNCHANGED <<pI, pTasks, pArtifact, pCollected>>
    /\ PoolInputs /\ NotPool

PoolNext ==
    \/ BuildTask
    \/ Dispatch
    \/ \E k \in 1..MaxRegions : k <= Len(pState) /\ WorkerStart(k)
    \/ \E k \in 1..MaxRegions : k <= Len(pState) /\ TaskListTiles(k)
    \/ \E k \in 1..MaxRegions : k <= Len(pState) /\ TaskBuild(k)
    \/ Collect
    \/ MainEnd

PoolIdle ==
    /\ pStrict = FALSE /\ pProcesses = 0 /\ pRequested = <<>> /\ pIndex = {}
    /\ pFault = <<>> /\ pMainPc = "idle" /\ pI = 0 /\ pTasks = <<>>
    /\ pState = <<>> /\ pArtifact = <<>> /\ pCollected = 0 /\ pExit = -1

----------------------------------------------------------------------------
BboxIdle == gGeometry = [type |-> "Geometry", coordinates |-> List(<<>>)]
            /\ gPc = "idle" /\ gResult = [err |-> "", box |-> SeedBox]
ConvIdle == cLines = <<>> /\ cInput = <<>> /\ cPc = "idle"
            /\ cResult = [err |-> "", result |-> <<>>]

BboxSpecInit == BboxInit /\ ConvIdle /\ TaskIdle /\ PoolIdle
BboxNext == GetBbox
BboxSpec == BboxSpecInit /\ [][BboxNext]_vars

ConvSpecInit == ConvInit /\ BboxIdle /\ TaskIdle /\ PoolIdle
ConvNext == ConvertTileList
ConvSpec == ConvSpecInit /\ [][ConvNext]_vars

TaskSpecInit == TaskInit /\ BboxIdle /\ ConvIdle /\ PoolIdle
TaskSpec == TaskSpecInit /\ [][TaskNext]_vars

PoolSpecInit == PoolInit /\ BboxIdle /\ ConvIdle /\ TaskIdle
PoolSpec == PoolSpecInit /\ [][PoolNext]_vars

----------------------------------------------------------------------------
(* Claims on get_bbox and convert_tile_list *)

Inside(box, pt) ==
    /\ box[1] <= pt[1] /\ pt[1] <= box[3]
    /\ box[2] <= pt[2] /\ pt[2] <= box[4]

\* C8: for every coordinate structure holding at least one coordinate pair
\* (whole or fractional values, any depth, a point included) get_bbox
\* returns without error a box with minLon <= maxLon, minLat <= maxLat that
\* contains every leaf coordinate pair.
C8_BboxContainsLeaves ==
    gPc = "done" =>
        /\ gResult.err = ""
        /\ gResult.box[1] <= gResult.box[3]
        /\ gResult.box[2] <= gResult.box[4]
        /\ \A pt \in Leaves(gGeometry.coordinates) : Inside(gResult.box, pt)

WellFormed(ls) == \A i \in 1..Len(ls) : ls[i].kind \in {"tile", "blank"}

RECURSIVE ExpectedTuples(_)
ExpectedTuples(ls) ==
    IF Len(ls) = 0 THEN <<>>
    ELSE LET l == ls[1] IN
         (IF l.kind = "tile"
            THEN << <<l.z, l.x, (Pow2(l.z) - 1) - l.y>> >>
            ELSE <<>>) \o ExpectedTuples(Tail(ls))

TileDescs(ls) == SelectSeq(ls, LAMBDA l : l.kind = "tile")

\* C6: on input made of lines z/x/y (0 <= y < 2^z) and blank lines,
\* convert_tile_list returns one tuple (z, x, (2^z - 1) - y) per non-blank
\* line, in input order, nothing for blank lines, repeated addresses kept;
\* flipping a returned row again at the same zoom gives the input row.
C6_ConvertWellFormed ==
    (cPc = "done" /\ WellFormed(cLines)) =>
        /\ cResult.err = ""
        /\ cResult.result = ExpectedTuples(cLines)
        /\ Len(cResult.result) = Len(TileDescs(cLines))
        /\ \A i \in 1..Len(cResult.result) :
              LET t == cResult.result[i] IN
              /\ t[1] = TileDescs(cLines)[i].z
              /\ t[2] = TileDescs(cLines)[i].x
              /\ y_corrected(t[1], t[3]) = TileDescs(cLines)[i].y

\* a repeated address next to nothing else: both tuples are returned, and
\* the row is really flipped
C6_Witness ==
    /\ cPc = "done" /\ WellFormed(cLines)
    /\ Len(cLines) = 2 /\ cLines[1] = cLines[2]
    /\ cLines[1].kind = "tile" /\ cLines[1].z = 2 /\ cLines[1].y = 0
    /\ cLines[1].x = 10
    /\ cResult.result = << <<2, 10, 3>>, <<2, 10, 3>> >>

ThreeIntFields(l) ==
    l.kind = "tile" \/ (l.kind = "raw" /\ Len(l.f) = 3
                          /\ \A i \in 1..3 : l.f[i] \in {<<"0">>, <<"1">>,
                                                           <<"2">>, <<"3">>})

\* C7: convert_tile_list fails for every input holding a non-blank line
\* that is not exactly three integer fields separated by "/".
C7_MalformedLineFails ==
    (cPc = "done" /\ \E i \in 1..Len(cLines) :
                        cLines[i].kind # "blank" /\ ~ThreeIntFields(cLines[i]))
        => cResult.err # ""

----------------------------------------------------------------------------
(* Claims on one region task *)

Key(r) == <<r[1], r[2], r[3]>>
Range(f) == { f[i] : i \in DOMAIN f }
Count(rows, r) == Cardinality({ i \in 1..Len(rows) : rows[i] = r })
NoDuplicates(list) ==
    \A i, j \in 1..Len(list) : list[i] = list[j] => i = j

\* C1: when create_mbtiles finishes without error on a list without
\* duplicate addresses, the tiles table of the output store holds exactly
\* the source rows whose key is listed: each such row once, with the
\* source's blob, and no other row.
C1_ExactSubset ==
    (tFormat = "mbtiles" /\ tCm = "ok" /\ NoDuplicates(tTileList)) =>
        /\ \A i \in 1..Len(tOut.tiles) :
              /\ tOut.tiles[i] \in tSrcTiles
              /\ Key(tOut.tiles[i]) \in Range(tTileList)
        /\ \A r \in tSrcTiles :
              Key(r) \in Range(tTileList) => Count(tOut.tiles, r) = 1
        /\ \A i, j \in 1..Len(tOut.tiles) :
              Key(tOut.tiles[i]) = Key(tOut.tiles[j]) => i = j
        /\ tOut.pend = <<>>

\* the example of the specification: three source tiles, one listed
C1_Witness ==
    /\ tFormat = "mbtiles" /\ tCm = "ok"
    /\ tSrcTiles = { <<0, 0, 0, "b1">>, <<1, 0, 0, "b1">>, <<1, 1, 0, "b1">> }
    /\ tTileList = << <<1, 0, 0>> >>
    /\ tOut.tiles = << <<1, 0, 0, "b1">> >>

LaterSteps == {"index", "metadata", "bounds", "center", "detach"}

\* C5 as stated: one encompassing transaction, so that a failure of any
\* step after the output store was created leaves no tile row and no
\* metadata row of the run visible at the output path.
C5_NothingVisibleAfterFailure ==
    (tFormat = "mbtiles" /\ tCm = "error" /\ tFailedAt # "connect") =>
        (tOut.tiles = <<>> /\ tOut.meta = {})

\* C5 amended: the tile copies are committed on their own before the
\* unique index is built and the metadata rows are committed after it.
\* When a later step fails (index, metadata copy, bounds or center insert,
\* detach) every copied tile row is still visible at the output path;
\* metadata rows are visible only when the failure came after the metadata
\* copy; and the task ends by exit status 1.
C5_StagedCommits ==
    (tFormat = "mbtiles" /\ tCm = "error") =>
        /\ tFailedAt \in LaterSteps =>
              /\ \A r \in tSrcTiles :
                    Count(tOut.tiles, r) = Count(tTileList, Key(r))
              /\ \A i \in 1..Len(tOut.tiles) : tOut.tiles[i] \in tSrcTiles
        /\ tOut.meta # {} => tFailedAt \in {"bounds", "center", "detach"}
        /\ tEnd # "" => tEnd = "SystemExit"

\* the unique index fails on an address listed twice: both rows stay
C5_Witness ==
    /\ tFormat = "mbtiles" /\ tCm = "error" /\ tFailedAt = "index"
    /\ tEnd = "SystemExit"
    /\ tTileList = << <<1, 0, 0>>, <<1, 0, 0>> >>
    /\ Len(tOut.tiles) = 2

MetaOf(metadata, key) == { kv[2] : kv \in { x \in metadata : x[1] = key } }

\* C9 as stated: in both variants the output's metadata has name and
\* attribution set to the fixed constants.
C9_NameAttributionFixed ==
    tEnd = "returned" =>
        /\ MetaOf(tOut.meta, "name") = { Str(NAME) }
        /\ MetaOf(tOut.meta, "attribution") = { Str(ATTRIBUTION) }

\* C9 amended: the tar.gz variant sets name and attribution to the fixed
\* constants whatever the source held; the mbtiles variant copies the
\* source's name and attribution rows unchanged.
C9_NameAttributionByVariant ==
    tEnd = "returned" =>
        IF tFormat = "tar.gz"
          THEN /\ MetaOf(tOut.meta, "name") = { Str(NAME) }
               /\ MetaOf(tOut.meta, "attribution") = { Str(ATTRIBUTION) }
          ELSE /\ MetaOf(tOut.meta, "name") = MetaOf(tSrcMeta, "name")
               /\ MetaOf(tOut.meta, "attribution") =
                      MetaOf(tSrcMeta, "attribution")

\* an archive whose source had another name and no attribution
C9_Witness ==
    /\ tEnd = "returned" /\ tFormat = "tar.gz"
    /\ MetaOf(tSrcMeta, "name") = { Str("Planet") }
    /\ MetaOf(tSrcMeta, "attribution") = {}
    /\ <<"name", Str(NAME)>> \in tOut.meta
    /\ <<"attribution", Str(ATTRIBUTION)>> \in tOut.meta

\* C10: when the task ends, on whatever path, every temporary file it
\* created has been deleted.
C10_TempFilesDeleted ==
    tEnd # "" => tFiles = {}

----------------------------------------------------------------------------
(* Claims on the main script and the pool *)

Dispatched == 1..Len(pState)
Healthy(k) == pTasks[k].feature.found /\ pFault[pTasks[k].region] = "none"
MainBlocked ==
    /\ pMainPc = "collect"
    /\ pCollected < Len(pTasks)
    /\ pState[pCollected + 1] = "died"

\* C2: in lenient mode a configured region without feature in the index
\* gets no task, the run completes, and the output of every other region
\* is produced.
C2_LenientSkipsMissing ==
    ~pStrict =>
        /\ \A k \in 1..Len(pTasks) : pTasks[k].feature.found
        /\ (pMainPc = "exited" /\ \A k \in 1..Len(pTasks) :
                                     pTasks[k].feature.found => Healthy(k))
              => /\ pExit = 0
                 /\ \A k \in Dispatched :
                       pTasks[k].feature.found => pArtifact[k] = "complete"

\* C3: once a dispatched task has hit a build error (lister or pipeline
\* exit status, database error), the main process is never left waiting
\* for a result that cannot come, and when it exits it has collected every
\* result and its status is not 0.
C3_FailAtEnd ==
    (\E k \in Dispatched : pState[k] = "died") =>
        /\ ~MainBlocked
        /\ pMainPc = "exited" => (pExit # 0 /\ pCollected = Len(pTasks))

\* C4: a failure in one region's task never cancels or kills the task of
\* another region: a task in which nothing fails is never terminated and,
\* when the main process has exited, has returned with its complete output.
C4_SiblingsUnaffected ==
    \A k \in Dispatched :
        Healthy(k) =>
            /\ pState[k] # "terminated"
            /\ pMainPc = "exited" =>
                  (pState[k] = "returned" /\ pArtifact[k] = "complete")

====
